---------------------------- MODULE Spec2Model ----------------------------
(***************************************************************************)
(* A model of src/a11y.js: the accessible-label resolver getA11yLabel, the *)
(* interactive-role promoter createA11yButton with its keydown handler,    *)
(* and the modal attributor setModalA11yAttributes, over a DOM heap.       *)
(*                                                                         *)
(* Strings are sequences of characters (one-character TLA+ strings; a      *)
(* longer token stands for a run of non-blank characters).  A node of the  *)
(* heap is a record [tag, attrs, kids, data]; attrs is a function from the *)
(* names of the attributes the node carries to their values, so an absent  *)
(* attribute and an attribute whose value is the empty string differ, as   *)
(* they do for getAttribute (null against "").                             *)
(***************************************************************************)
EXTENDS Integers, Sequences, FiniteSets, TLC

VARIABLES
  heap,       \* the DOM nodes: heap[1] is the document's root element
  stack,      \* the activation records of getA11yLabel, innermost last
  target,     \* the element of the outermost getA11yLabel call (0: none yet)
  result,     \* what the outermost getA11yLabel call returned
  done,       \* TRUE once the outermost getA11yLabel call has returned
  steps,      \* statements executed by the outermost call so far
  listeners,  \* listeners[n]: keydown listeners registered on element n
  clicks,     \* the click activations the last keydown caused, in order
  prevented,  \* preventDefault calls made during the last keydown
  last,       \* the last attribute-level operation and its arguments
  pre,        \* the attributes of last.el just before that operation
  consec      \* how many setModalA11yAttributes calls in a row hit last.el

vars == <<heap, stack, target, result, done, steps, listeners, clicks,
          prevented, last, pre, consec>>

labelVars == <<stack, target, result, done, steps>>
attrVars == <<listeners, clicks, prevented, last, pre, consec>>

-----------------------------------------------------------------------------
(* Bounds *)

\* The deepest nesting of getA11yLabel activations the model follows.
MaxDepth == 4

\* The most statements of one outermost getA11yLabel call the model follows.
MaxSteps == 24

\* The most keydown listeners the model registers on one element.
MaxListeners == 2

-----------------------------------------------------------------------------
(* Strings *)

IsSpace(c) == c = " "

RECURSIVE TrimStart(_)
TrimStart(s) ==
  IF s = <<>> THEN s
  ELSE IF IsSpace(Head(s)) THEN TrimStart(Tail(s)) ELSE s

RECURSIVE TrimEnd(_)
TrimEnd(s) ==
  IF s = <<>> THEN s
  ELSE IF IsSpace(s[Len(s)]) THEN TrimEnd(SubSeq(s, 1, Len(s) - 1)) ELSE s

\* String.prototype.trim
Trim(s) == TrimEnd(TrimStart(s))

\* What a DOMString parameter receives when it is passed null.
NullStr == <<"n", "u", "l", "l">>

-----------------------------------------------------------------------------
(* The DOM *)

Root == 1
Null == 0

NoAttrs == [x \in {} |-> <<>>]

ElementNode(tag, attrs, kids) ==
  [tag |-> tag, attrs |-> attrs, kids |-> kids, data |-> <<>>]

TextNode(s) == [tag |-> "#text", attrs |-> NoAttrs, kids |-> <<>>, data |-> s]

IsElement(h, n) == h[n].tag # "#text"

HasAttribute(h, n, name) == name \in DOMAIN h[n].attrs

\* The truthiness of element.getAttribute(name): a present, non-empty value.
Truthy(h, n, name) == HasAttribute(h, n, name) /\ h[n].attrs[name] # <<>>

\* element.getAttribute(name) where a DOMString is expected: null reads "null".
AttrString(h, n, name) ==
  IF HasAttribute(h, n, name) THEN h[n].attrs[name] ELSE NullStr

SetAttr(a, name, v) ==
  [x \in DOMAIN a \cup {name} |-> IF x = name THEN v ELSE a[x]]

RemoveAttr(a, name) == [x \in DOMAIN a \ {name} |-> a[x]]

SetAttribute(h, n, name, v) == [h EXCEPT ![n].attrs = SetAttr(@, name, v)]

RemoveAttribute(h, n, name) == [h EXCEPT ![n].attrs = RemoveAttr(@, name)]

RECURSIVE TextContent(_, _), TextOfNodes(_, _)
\* node.textContent (read): the text of the node's subtree, in tree order.
TextContent(h, n) ==
  IF h[n].tag = "#text" THEN h[n].data ELSE TextOfNodes(h, h[n].kids)
TextOfNodes(h, ks) ==
  IF ks = <<>> THEN <<>>
  ELSE TextContent(h, Head(ks)) \o TextOfNodes(h, Tail(ks))

RECURSIVE Descendants(_, _), DescendantsOfNodes(_, _)
\* The strict descendants of n, in tree (document) order.
Descendants(h, n) == DescendantsOfNodes(h, h[n].kids)
DescendantsOfNodes(h, ks) ==
  IF ks = <<>> THEN <<>>
  ELSE <<Head(ks)>> \o Descendants(h, Head(ks))
         \o DescendantsOfNodes(h, Tail(ks))

SeqToSet(s) == {s[i] : i \in DOMAIN s}

\* The elements of the document, in document order.
DocumentElements(h) ==
  SelectSeq(<<Root>> \o Descendants(h, Root), LAMBDA n : IsElement(h, n))

\* document.getElementById(id): the first element in document order with
\* that id; no element has the empty id.
GetElementById(h, id) ==
  LET hits == SelectSeq(DocumentElements(h),
                LAMBDA n : HasAttribute(h, n, "id") /\ h[n].attrs["id"] = id)
  IN IF id = <<>> \/ hits = <<>> THEN Null ELSE Head(hits)

RECURSIVE CloneInto(_, _), CloneKids(_, _, _)
\* node.cloneNode(true): the heap with a deep copy of n's subtree appended;
\* the copy of n itself is node Len(h) + 1.
CloneInto(h, n) ==
  CloneKids(Append(h, [h[n] EXCEPT !.kids = <<>>]), h[n].kids, Len(h) + 1)
CloneKids(h, ks, c) ==
  IF ks = <<>> THEN h
  ELSE LET k == Len(h) + 1
           h1 == CloneInto(h, Head(ks))
       IN CloneKids([h1 EXCEPT ![c].kids = Append(@, k)], Tail(ks), c)

\* element.textContent = s: the children are replaced by one text node, or
\* by nothing when s is empty.
SetTextContent(h, n, s) ==
  IF s = <<>> THEN [h EXCEPT ![n].kids = <<>>]
  ELSE [Append(h, TextNode(s)) EXCEPT ![n].kids = <<Len(h) + 1>>]

-----------------------------------------------------------------------------
(* getA11yLabel, src/a11y.js lines 21-38, as a machine with a call stack *)

\* Line 22: element.getAttribute("aria-label") is truthy.
HasExplicitLabel(h, el) == Truthy(h, el, "aria-label")

\* A resolver that tidies the explicit label as it does the other two sources.
ExplicitLabelTrimmed(h, el) == Trim(h[el].attrs["aria-label"])

\* Line 23: the value returned for an explicit label.
ExplicitLabel(h, el) == h[el].attrs["aria-label"]

\* Lines 26-27: getAttribute's result, null included, goes to getElementById.
LabelledByElement(h, el) ==
  GetElementById(h, AttrString(h, el, "aria-labelledby"))

\* Line 30: the label taken from the referenced element.
LabelledByText(h, ref) == Trim(TextContent(h, ref))

\* Line 35: the selector "[aria-label], [aria-labelledby]".
MatchesLabelSelector(h, n) ==
  /\ IsElement(h, n)
  /\ HasAttribute(h, n, "aria-label") \/ HasAttribute(h, n, "aria-labelledby")

\* A query that also matches the element it is run on (as closest() or a
\* hand-written walk starting at the element would).
LabelledInclusive(h, c) ==
  SelectSeq(<<c>> \o Descendants(h, c), LAMBDA n : MatchesLabelSelector(h, n))

\* Lines 34-35: clonedElement.querySelectorAll(...), a static list of the
\* matching strict descendants in tree order.
LabelledDescendants(h, c) ==
  SelectSeq(Descendants(h, c), LAMBDA n : MatchesLabelSelector(h, n))

\* A resolver that rewrites the element itself instead of a copy.
NoClone(h, el) == [heap |-> h, node |-> el]

\* Line 33: element.cloneNode(true), as the heap that holds the clone and the
\* node that is the clone.
CloneNode(h, el) == [heap |-> CloneInto(h, el), node |-> Len(h) + 1]

\* Line 37: the value returned from the clone.
CloneText(h, c) == Trim(TextContent(h, c))

\* An activation of getA11yLabel(el).  base is the size of the heap when the
\* call was made: the outermost activation's base is the size of the document.
Frame(el) ==
  [el |-> el, pc |-> "start", clone |-> Null, list |-> <<>>, i |-> 0,
   ret |-> <<>>, base |-> Len(heap)]

Top == stack[Len(stack)]

SetTop(f) == [stack EXCEPT ![Len(stack)] = f]

\* A return statement: the activation is popped and the value handed to the
\* caller, which resumes at the assignment of line 36; the outermost return
\* ends the call, and the clones, which nothing references, are reclaimed.
DoReturn(v) ==
  IF Len(stack) = 1
  THEN /\ stack' = <<>>
       /\ result' = v
       /\ done' = TRUE
       /\ heap' = SubSeq(heap, 1, stack[1].base)
       /\ UNCHANGED target
  ELSE /\ stack' = [SubSeq(stack, 1, Len(stack) - 1)
                      EXCEPT ![Len(stack) - 1].ret = v,
                             ![Len(stack) - 1].pc = "assign"]
       /\ UNCHANGED <<heap, result, done, target>>

\* One more statement of the running call is executed.
Tick == steps < MaxSteps /\ steps' = steps + 1

\* A caller of the module invokes getA11yLabel(e) on an element of the document.
Call(e) ==
  /\ stack = <<>>
  /\ e \in SeqToSet(DocumentElements(heap))
  /\ stack' = <<Frame(e)>>
  /\ target' = e
  /\ result' = <<>>
  /\ done' = FALSE
  /\ steps' = 0
  /\ UNCHANGED <<heap, attrVars>>

\* The conditions under which the innermost activation executes each of its
\* statements.
AtAriaLabelReturn ==
  Top.pc = "start" /\ HasExplicitLabel(heap, Top.el)

AtLabelledByReturn ==
  /\ Top.pc = "start"
  /\ ~HasExplicitLabel(heap, Top.el)
  /\ LabelledByElement(heap, Top.el) # Null

AtClone ==
  /\ Top.pc = "start"
  /\ ~HasExplicitLabel(heap, Top.el)
  /\ LabelledByElement(heap, Top.el) = Null

AtRecursiveCall ==
  Top.pc = "loop" /\ Top.i <= Len(Top.list) /\ Len(stack) < MaxDepth

AtAssignment == Top.pc = "assign"

AtCloneTextReturn == Top.pc = "loop" /\ Top.i > Len(Top.list)

\* Lines 22-24.
ReturnAriaLabel ==
  /\ stack # <<>>
  /\ AtAriaLabelReturn
  /\ DoReturn(ExplicitLabel(heap, Top.el))
  /\ Tick
  /\ UNCHANGED attrVars

\* Lines 26-31.
ReturnLabelledBy ==
  /\ stack # <<>>
  /\ AtLabelledByReturn
  /\ DoReturn(LabelledByText(heap, LabelledByElement(heap, Top.el)))
  /\ Tick
  /\ UNCHANGED attrVars

\* Lines 33-35: the subtree is cloned and the labelled descendants listed.
CloneAndQuery ==
  /\ stack # <<>>
  /\ AtClone
  /\ LET cloned == CloneNode(heap, Top.el)
     IN /\ heap' = cloned.heap
        /\ stack' = SetTop([Top EXCEPT
                              !.pc = "loop", !.clone = cloned.node, !.i = 1,
                              !.list = LabelledDescendants(cloned.heap,
                                                           cloned.node)])
  /\ Tick
  /\ UNCHANGED <<target, result, done, attrVars>>

\* Line 36, right-hand side: getA11yLabel(el) for the next listed node.
Recurse ==
  /\ stack # <<>>
  /\ AtRecursiveCall
  /\ stack' = Append(SetTop([Top EXCEPT !.pc = "wait"]), Frame(Top.list[Top.i]))
  /\ Tick
  /\ UNCHANGED <<heap, target, result, done, attrVars>>

\* Line 36, the assignment: el.textContent = <the value returned>.
AssignTextContent ==
  /\ stack # <<>>
  /\ AtAssignment
  /\ heap' = SetTextContent(heap, Top.list[Top.i], Top.ret)
  /\ stack' = SetTop([Top EXCEPT !.pc = "loop", !.i = @ + 1, !.ret = <<>>])
  /\ Tick
  /\ UNCHANGED <<target, result, done, attrVars>>

\* Line 37.
ReturnCloneText ==
  /\ stack # <<>>
  /\ AtCloneTextReturn
  /\ DoReturn(CloneText(heap, Top.clone))
  /\ Tick
  /\ UNCHANGED attrVars

LabelStep ==
  \/ ReturnAriaLabel
  \/ ReturnLabelledBy
  \/ CloneAndQuery
  \/ Recurse
  \/ AssignTextContent
  \/ ReturnCloneText

\* Some statement of the running call can execute: each statement above
\* assigns every variable, so it is enabled exactly when its condition holds.
LabelStepEnabled ==
  /\ stack # <<>>
  /\ steps < MaxSteps
  /\ \/ AtAriaLabelReturn
     \/ AtLabelledByReturn
     \/ AtClone
     \/ AtRecursiveCall
     \/ AtAssignment
     \/ AtCloneTextReturn

-----------------------------------------------------------------------------
(* Documents for the label resolver *)

Attr(name, v) == name :> v

\* The attribute sets with an optional attribute `name` drawn from vals.
Optional(name, vals) == {NoAttrs} \cup {Attr(name, v) : v \in vals}

IdE == <<"e">>
IdA == <<"a">>
IdB == <<"b">>
IdT == <<"t">>
IdNone == <<"z">>

LabelL == <<" ", "L", " ">>
LabelW == <<"W">>
LabelV == <<"V", " ">>

\*  1 BODY
\*    2 DIV#e   "H "  4 SPAN#a ( " i"  6 SPAN#b ( "d " ) )  " z "
\*    9 P#t|#null  " r "
LabelDocument(attrsE, attrsA, attrsB, attrsT) ==
  << ElementNode("BODY", NoAttrs, <<2, 9>>),
     ElementNode("DIV", attrsE, <<3, 4, 8>>),
     TextNode(<<"H", " ">>),
     ElementNode("SPAN", attrsA, <<5, 6>>),
     TextNode(<<" ", "i">>),
     ElementNode("SPAN", attrsB, <<7>>),
     TextNode(<<"d", " ">>),
     TextNode(<<" ", "z", " ">>),
     ElementNode("P", attrsT, <<10>>),
     TextNode(<<" ", "r", " ">>) >>

AttrsE ==
  { Attr("id", IdE) @@ l @@ r :
      l \in Optional("aria-label", {LabelL}),
      r \in Optional("aria-labelledby", {IdA, IdT}) }

AttrsA ==
  { Attr("id", IdA) @@ l @@ r :
      l \in Optional("aria-label", {<<>>, LabelW}),
      r \in Optional("aria-labelledby", {IdT, IdE, IdA, IdB, IdNone}) }

AttrsB ==
  { Attr("id", IdB) @@ l @@ r :
      l \in Optional("aria-label", {LabelV}),
      r \in Optional("aria-labelledby", {IdE}) }

AttrsT ==
  { Attr("id", i) @@ r :
      i \in {IdT, NullStr},
      r \in Optional("aria-labelledby", {IdE}) }

NoEvent == [hasKey |-> FALSE, key |-> "", keyCode |-> 0]

NoOperation == [op |-> "none", el |-> Null, role |-> <<>>, ev |-> NoEvent]

\* Nothing has been promoted, pressed or attributed yet.
IdleAttrVars ==
  /\ listeners = [n \in DOMAIN heap |-> 0]
  /\ clicks = <<>>
  /\ prevented = 0
  /\ last = NoOperation
  /\ pre = NoAttrs
  /\ consec = 0

InitLabel ==
  /\ heap \in { LabelDocument(e, a, b, t) :
                  e \in AttrsE, a \in AttrsA, b \in AttrsB, t \in AttrsT }
  /\ stack = <<>>
  /\ target = Null
  /\ result = <<>>
  /\ done = FALSE
  /\ steps = 0
  /\ IdleAttrVars

NextLabel ==
  \/ \E e \in DOMAIN heap : Call(e)
  \/ LabelStep

SpecLabel == InitLabel /\ [][NextLabel]_vars

-----------------------------------------------------------------------------
(* createA11yButton and its keydown handler, src/a11y.js lines 47-74 *)

DefaultRole == <<"button">>

\* Line 47: the options argument; role defaults to "button" when omitted.
ConfiguredRole(options) ==
  IF "role" \in DOMAIN options THEN options["role"] ELSE DefaultRole

\* Line 48.
IsNativeButton(h, e) == h[e].tag = "BUTTON"

\* A promoter that writes the configured role whatever the element has.
WithRoleAlways(h, e, role) == SetAttribute(h, e, "role", role)

\* Line 52: the role is written only when getAttribute("role") is falsy.
WithRoleIfMissing(h, e, role) ==
  IF ~Truthy(h, e, "role") THEN SetAttribute(h, e, "role", role) ELSE h

\* Lines 52-53.
PromotedAttributes(h, e, role) ==
  SetAttribute(WithRoleIfMissing(h, e, role), e, "tabindex", <<"0">>)

\* Lines 47-74: addEventListener is given a new function object at every
\* call, so every call on a non-button registers one more listener.
CreateA11yButton(e, options) ==
  /\ stack = <<>>
  /\ IsElement(heap, e)
  /\ IF IsNativeButton(heap, e)
     THEN UNCHANGED <<heap, listeners>>
     ELSE /\ listeners[e] < MaxListeners
          /\ heap' = PromotedAttributes(heap, e, ConfiguredRole(options))
          /\ listeners' = [listeners EXCEPT ![e] = @ + 1]
  /\ last' = [op |-> "button", el |-> e, role |-> ConfiguredRole(options),
              ev |-> NoEvent]
  /\ pre' = heap[e].attrs
  /\ consec' = 0
  /\ clicks' = <<>>
  /\ prevented' = 0
  /\ UNCHANGED labelVars

\* Lines 57-64: key is e.key when the event has one, else e.keyCode; a key
\* name never equals 13 or 32 and a key code never equals a key name.
IsActivationKey(ev) ==
  IF ev.hasKey THEN ev.key \in {"Enter", "Spacebar", " "}
  ELSE ev.keyCode \in {13, 32}

\* Line 67: SVG elements have no click method; HTML elements do.
HasClickMethod(h, e) == h[e].tag # "svg"

\* Lines 65-71, one run of the handler on an activation key: the click it
\* causes, by element.click() or by a dispatched bubbling MouseEvent.
HandlerClick(h, e) ==
  IF HasClickMethod(h, e) THEN "click()" ELSE "dispatchEvent(click)"

\* A keydown event reaches element e: every registered listener runs.
Keydown(e, ev) ==
  /\ stack = <<>>
  /\ IsElement(heap, e)
  /\ clicks' = IF IsActivationKey(ev)
               THEN [i \in 1..listeners[e] |-> HandlerClick(heap, e)]
               ELSE <<>>
  /\ prevented' = IF IsActivationKey(ev) THEN listeners[e] ELSE 0
  /\ last' = [op |-> "keydown", el |-> e, role |-> <<>>, ev |-> ev]
  /\ pre' = heap[e].attrs
  /\ consec' = 0
  /\ UNCHANGED <<heap, listeners, labelVars>>

-----------------------------------------------------------------------------
(* setModalA11yAttributes and its helpers, src/a11y.js lines 80-135 *)

\* Line 108: the selector "h1, h2, h3, h4, h5, h6".
IsHeadline(h, n) == h[n].tag \in {"H1", "H2", "H3", "H4", "H5", "H6"}

\* A finder that looks at the first headline only, empty or not.
GetVeryFirstHeadline(h, container) ==
  LET headlines == SelectSeq(Descendants(h, container),
                             LAMBDA n : IsHeadline(h, n))
  IN IF headlines # <<>> /\ Trim(TextContent(h, Head(headlines))) # <<>>
     THEN [found |-> TRUE, text |-> Trim(TextContent(h, Head(headlines)))]
     ELSE [found |-> FALSE, text |-> <<>>]

\* Lines 107-119: found is FALSE for the null result.
GetFirstHeadline(h, container) ==
  LET headlines == SelectSeq(Descendants(h, container),
                             LAMBDA n : IsHeadline(h, n))
      withText == SelectSeq(headlines,
                            LAMBDA n : Trim(TextContent(h, n)) # <<>>)
  IN IF withText # <<>>
     THEN [found |-> TRUE, text |-> Trim(TextContent(h, Head(withText)))]
     ELSE [found |-> FALSE, text |-> <<>>]

\* A normalizer that copies the label and keeps the reference.
CopyAriaLabelledByToAriaLabel(h, e) ==
  LET labelledByElement == GetElementById(h, AttrString(h, e, "aria-labelledby"))
  IN IF labelledByElement = Null THEN h
     ELSE SetAttribute(h, e, "aria-label",
                       Trim(TextContent(h, labelledByElement)))

\* Lines 125-135.
ReplaceAriaLabelledByWithAriaLabel(h, e) ==
  LET labelledByElement == GetElementById(h, AttrString(h, e, "aria-labelledby"))
  IN IF labelledByElement = Null THEN h
     ELSE RemoveAttribute(
            SetAttribute(h, e, "aria-label",
                         Trim(TextContent(h, labelledByElement))),
            e, "aria-labelledby")

\* Lines 81-85.
WithDialogRole(h, e) ==
  SetAttribute(
    IF ~Truthy(h, e, "role") THEN SetAttribute(h, e, "role", <<"dialog">>)
    ELSE h,
    e, "aria-modal", <<"true">>)

\* An attributor that lets the headline win whenever no label is present.
UsesHeadlineDespiteReference(h, e, modalHeadline) ==
  /\ modalHeadline.found /\ modalHeadline.text # <<>>
  /\ ~Truthy(h, e, "aria-label")

\* Lines 89-93: the headline is used.
UsesHeadline(h, e, modalHeadline) ==
  /\ modalHeadline.found /\ modalHeadline.text # <<>>
  /\ ~Truthy(h, e, "aria-label")
  /\ ~Truthy(h, e, "aria-labelledby")

\* Lines 87-100.
WithModalLabel(h, e) ==
  LET modalHeadline == GetFirstHeadline(h, e)
  IN IF UsesHeadline(h, e, modalHeadline)
     THEN SetAttribute(h, e, "aria-label", modalHeadline.text)
     ELSE IF Truthy(h, e, "aria-labelledby")
          THEN ReplaceAriaLabelledByWithAriaLabel(h, e)
          ELSE h

\* Lines 80-101.
SetModalA11yAttributes(e) ==
  /\ stack = <<>>
  /\ IsElement(heap, e)
  /\ heap' = WithModalLabel(WithDialogRole(heap, e), e)
  /\ last' = [op |-> "modal", el |-> e, role |-> <<>>, ev |-> NoEvent]
  /\ pre' = heap[e].attrs
  /\ consec' = IF last.op = "modal" /\ last.el = e THEN 2 ELSE 1
  /\ clicks' = <<>>
  /\ prevented' = 0
  /\ UNCHANGED <<listeners, labelVars>>

-----------------------------------------------------------------------------
(* Documents for the modal attributor and the role promoter *)

IdM == <<"m">>
IdH == <<"h">>

LabelX == <<"X">>
RoleLink == <<"link">>

\*  1 BODY
\*    2 DIV|BUTTON|svg #m   "x "  4 H2#h ( textH )  6 H3 ( textS )
\*    8 P#t ( textT )
ModalDocument(tagM, attrsM, textH, textS, textT) ==
  << ElementNode("BODY", NoAttrs, <<2, 8>>),
     ElementNode(tagM, attrsM, <<3, 4, 6>>),
     TextNode(<<"x", " ">>),
     ElementNode("H2", Attr("id", IdH), <<5>>),
     TextNode(textH),
     ElementNode("H3", NoAttrs, <<7>>),
     TextNode(textS),
     ElementNode("P", Attr("id", IdT), <<9>>),
     TextNode(textT) >>

AttrsM ==
  { Attr("id", IdM) @@ r @@ l @@ b :
      r \in Optional("role", {<<>>, RoleLink}),
      l \in Optional("aria-label", {<<>>, LabelX}),
      b \in Optional("aria-labelledby", {<<>>, IdT, IdH, IdM, IdNone}) }

ModalDocuments ==
  { ModalDocument(tagM, m, th, ts, tt) :
      tagM \in {"DIV", "BUTTON", "svg"},
      m \in AttrsM,
      th \in {<<" ">>, <<"A", " ">>},
      ts \in {<<>>, <<" ", "S">>},
      tt \in {<<" ">>, <<" ", "T", " ">>} }

\* The elements the callers promote, press keys on and attribute.
Subject == 2

Options == {NoAttrs, Attr("role", <<"tab">>)}

Events ==
  { [hasKey |-> TRUE, key |-> "Enter", keyCode |-> 13],
    [hasKey |-> TRUE, key |-> " ", keyCode |-> 32],
    [hasKey |-> TRUE, key |-> "Spacebar", keyCode |-> 32],
    [hasKey |-> TRUE, key |-> "a", keyCode |-> 65],
    [hasKey |-> FALSE, key |-> "", keyCode |-> 13],
    [hasKey |-> FALSE, key |-> "", keyCode |-> 32],
    [hasKey |-> FALSE, key |-> "", keyCode |-> 65] }

Init ==
  /\ heap \in ModalDocuments
  /\ stack = <<>>
  /\ target = Null
  /\ result = <<>>
  /\ done = FALSE
  /\ steps = 0
  /\ IdleAttrVars

Next ==
  \/ \E options \in Options : CreateA11yButton(Subject, options)
  \/ \E ev \in Events : Keydown(Subject, ev)
  \/ SetModalA11yAttributes(Subject)

Spec == Init /\ [][Next]_vars

-----------------------------------------------------------------------------
(* Properties of getA11yLabel, checked under SpecLabel *)

LabelCallDone == done /\ stack = <<>> /\ target # Null

\* C1: for an element whose aria-label is a non-empty string V, getA11yLabel
\* returns exactly V, untrimmed, whatever aria-labelledby, the descendants and
\* the rest of the document hold, and no recursive call is made on the way.
C1_ExplicitLabelVerbatim ==
  (target # Null /\ Truthy(heap, target, "aria-label")) =>
     /\ Len(stack) <= 1
     /\ LabelCallDone => result = heap[target].attrs["aria-label"]

\* C1's case: the call on an element with an untrimmed explicit label, a
\* resolving aria-labelledby and labelled descendants has returned.
C1_Witness ==
  /\ LabelCallDone
  /\ Truthy(heap, target, "aria-label")
  /\ Trim(heap[target].attrs["aria-label"]) # heap[target].attrs["aria-label"]
  /\ Truthy(heap, target, "aria-labelledby")
  /\ LabelledByElement(heap, target) # Null
  /\ LabelledDescendants(heap, target) # <<>>

RECURSIVE SubstitutedText(_, _), SubstitutedNodes(_, _), ResolvedLabel(_, _)
\* The label a labelled descendant stands for, by the three rules of the
\* resolver read from its attributes: the explicit label, else the trimmed
\* text of the element its aria-labelledby names, else its own substituted text.
ResolvedLabel(h, d) ==
  IF Truthy(h, d, "aria-label") THEN h[d].attrs["aria-label"]
  ELSE IF /\ HasAttribute(h, d, "aria-labelledby")
          /\ GetElementById(h, h[d].attrs["aria-labelledby"]) # Null
       THEN Trim(TextContent(h, GetElementById(h, h[d].attrs["aria-labelledby"])))
       ELSE Trim(SubstitutedText(h, d))
\* The text of n's subtree with every descendant that carries aria-label or
\* aria-labelledby contributing its resolved label in place of its text.
SubstitutedText(h, n) == SubstitutedNodes(h, h[n].kids)
SubstitutedNodes(h, ks) ==
  IF ks = <<>> THEN <<>>
  ELSE LET k == Head(ks)
           part == IF h[k].tag = "#text" THEN h[k].data
                   ELSE IF MatchesLabelSelector(h, k) THEN ResolvedLabel(h, k)
                   ELSE SubstitutedText(h, k)
       IN part \o SubstitutedNodes(h, Tail(ks))

NoLabelAttributes(h, n) ==
  ~HasAttribute(h, n, "aria-label") /\ ~HasAttribute(h, n, "aria-labelledby")

\* C2: for an element with neither aria-label nor aria-labelledby,
\* getA11yLabel returns the trimmed text of its subtree in which each labelled
\* descendant contributes its own resolved label; nothing outside the subtree
\* but the targets of descendants' aria-labelledby has a say.
C2_SubtreeTextWithLabels ==
  (LabelCallDone /\ NoLabelAttributes(heap, target)) =>
     result = Trim(SubstitutedText(heap, target))

\* The same statement for the documents in which no element has the id
\* "null", where the lookup of an absent aria-labelledby finds nothing.
C2_HoldsWithoutNullId ==
  (LabelCallDone /\ NoLabelAttributes(heap, target)
     /\ GetElementById(heap, NullStr) = Null) =>
     result = Trim(SubstitutedText(heap, target))

\* The example of the statement: a labelled descendant with text of its own
\* has contributed its label, so the result is not the plain subtree text.
C2_Example ==
  /\ LabelCallDone
  /\ NoLabelAttributes(heap, target)
  /\ GetElementById(heap, NullStr) = Null
  /\ \E d \in SeqToSet(Descendants(heap, target)) :
        /\ Truthy(heap, d, "aria-label")
        /\ TextContent(heap, d) # <<>>
  /\ result # Trim(TextContent(heap, target))

\* C8: getA11yLabel never writes to the tree it was given: while a call runs,
\* and when it returns, every node of the document (the element, its
\* descendants, the aria-labelledby targets, everything else) keeps its
\* attributes, text and children; only nodes made for the clone change.
C8_OriginalTreeUntouched ==
  [][ /\ stack # <<>> =>
           \A n \in 1..stack[1].base : n \in DOMAIN heap' /\ heap'[n] = heap[n]
      /\ stack = <<>> =>
           \A n \in DOMAIN heap : n \in DOMAIN heap' /\ heap'[n] = heap[n] ]_vars

\* C8's case: a call that cloned, recursed and replaced text in the clone has
\* returned.
C8_Witness ==
  /\ LabelCallDone
  /\ ~HasExplicitLabel(heap, target)
  /\ LabelledByElement(heap, target) = Null
  /\ Len(LabelledDescendants(heap, target)) >= 2
  /\ result # Trim(TextContent(heap, target))

\* Every activation but the outermost runs on a node that the activation
\* below it listed from its clone, a node made after that clone.
RecursionDescends ==
  \A i \in 2..Len(stack) :
     /\ stack[i - 1].pc = "wait"
     /\ stack[i].el = stack[i - 1].list[stack[i - 1].i]
     /\ stack[i].el > stack[i - 1].clone
     /\ stack[i].el > stack[1].base

\* C9: getA11yLabel terminates on every finite tree whatever the aria-label
\* and aria-labelledby attributes are, reference cycles and references to the
\* element itself, an ancestor or a descendant included.  Every recursive call
\* is made on a strict descendant of the clone, never on the target of a
\* reference, so the activations nest no deeper than the tree; and a running
\* call always has a next statement to execute within its MaxSteps statements
\* (steps grows with each one, so no statement sequence repeats): it returns.
C9_Terminates ==
  /\ RecursionDescends
  /\ Len(stack) < MaxDepth
  /\ stack # <<>> => LabelStepEnabled

\* C9's case: a call that recursed into descendants whose aria-labelledby
\* names their ancestor, the element of the call, has returned.
C9_Witness ==
  /\ LabelCallDone
  /\ ~HasExplicitLabel(heap, target)
  /\ LabelledByElement(heap, target) = Null
  /\ \E d \in SeqToSet(LabelledDescendants(heap, target)) :
        /\ ~HasExplicitLabel(heap, d)
        /\ LabelledByElement(heap, d) = target

-----------------------------------------------------------------------------
(* Properties of createA11yButton and setModalA11yAttributes, under Spec *)

AttrTruthy(a, name) == name \in DOMAIN a /\ a[name] # <<>>

SameAttr(a, b, name) ==
  /\ name \in DOMAIN a <=> name \in DOMAIN b
  /\ name \in DOMAIN a => a[name] = b[name]

\* The attributes of the element of the last operation, after it.
After == heap[last.el].attrs

ModalCalled == last.op = "modal"

\* The element the modal's aria-labelledby named when the call was made.
Referenced ==
  IF AttrTruthy(pre, "aria-labelledby")
  THEN GetElementById(heap, pre["aria-labelledby"]) ELSE Null

ReferencedText == Trim(TextContent(heap, Referenced))

\* The headlines under the element of the last operation, in document order.
HeadlinesOfSubject ==
  SelectSeq(Descendants(heap, last.el), LAMBDA n : IsHeadline(heap, n))

HasNonEmptyHeadline ==
  \E i \in DOMAIN HeadlinesOfSubject :
     Trim(TextContent(heap, HeadlinesOfSubject[i])) # <<>>

\* text is the trimmed text of the first headline whose trimmed text is not
\* empty, every headline before it being empty or blank.
IsFirstNonEmptyHeadlineText(text) ==
  \E i \in DOMAIN HeadlinesOfSubject :
     /\ Trim(TextContent(heap, HeadlinesOfSubject[i])) = text
     /\ text # <<>>
     /\ \A j \in 1..(i - 1) :
           Trim(TextContent(heap, HeadlinesOfSubject[j])) = <<>>

\* The event is a press of Enter or of the space bar.
IsEnterOrSpace(ev) == ev.keyCode \in {13, 32}

Promoted(e) == ~IsNativeButton(heap, e) /\ listeners[e] >= 1

\* C3: on a promoted non-button element, after any number of
\* createA11yButton calls on it, one keydown of Enter or Space triggers
\* exactly one click activation.
C3_OneActivationPerKeypress ==
  (last.op = "keydown" /\ Promoted(last.el) /\ IsEnterOrSpace(last.ev)) =>
     Len(clicks) = 1

\* What the handler registration does give: one activation per keypress for
\* each createA11yButton call made on the element.
C3_OneActivationPerRegistration ==
  (last.op = "keydown" /\ IsEnterOrSpace(last.ev)) =>
     Len(clicks) = listeners[last.el] /\ prevented = listeners[last.el]

\* C4 as claimed: after setModalA11yAttributes the modal has aria-modal
\* "true", a non-empty role, and an aria-label that is the explicit label if
\* there was one, else the first non-empty headline, else the text of the
\* element aria-labelledby names.
C4_ExplicitThenHeadlineThenReference ==
  ModalCalled =>
     /\ AttrTruthy(After, "aria-modal") /\ After["aria-modal"] = <<"true">>
     /\ AttrTruthy(After, "role")
     /\ IF AttrTruthy(pre, "aria-label")
        THEN SameAttr(After, pre, "aria-label")
        ELSE IF HasNonEmptyHeadline
        THEN /\ "aria-label" \in DOMAIN After
             /\ IsFirstNonEmptyHeadlineText(After["aria-label"])
        ELSE IF Referenced # Null
        THEN /\ "aria-label" \in DOMAIN After
             /\ After["aria-label"] = ReferencedText
        ELSE TRUE

\* C4, amended: after setModalA11yAttributes the modal has aria-modal "true",
\* a non-empty role, and an aria-label chosen in this order: the trimmed text
\* of the element a non-empty aria-labelledby names, when there is one (an
\* explicit label is then replaced); else the explicit non-empty label, kept;
\* else, only when aria-labelledby is absent or empty, the first non-empty
\* headline; else the aria-label attribute is as it was.
C4_ReferenceThenExplicitThenHeadline ==
  ModalCalled =>
     /\ AttrTruthy(After, "aria-modal") /\ After["aria-modal"] = <<"true">>
     /\ AttrTruthy(After, "role")
     /\ IF Referenced # Null
        THEN /\ "aria-label" \in DOMAIN After
             /\ After["aria-label"] = ReferencedText
        ELSE IF AttrTruthy(pre, "aria-label")
        THEN SameAttr(After, pre, "aria-label")
        ELSE IF HasNonEmptyHeadline /\ ~AttrTruthy(pre, "aria-labelledby")
        THEN /\ "aria-label" \in DOMAIN After
             /\ IsFirstNonEmptyHeadlineText(After["aria-label"])
        ELSE SameAttr(After, pre, "aria-label")

\* C4's case: a modal with an explicit label, a headline and a resolving
\* reference has been attributed, and carries the referenced text.
C4_Witness ==
  /\ ModalCalled
  /\ AttrTruthy(pre, "aria-label")
  /\ HasNonEmptyHeadline
  /\ Referenced # Null
  /\ ReferencedText # <<>>
  /\ After["aria-label"] = ReferencedText
  /\ After["aria-label"] # pre["aria-label"]

\* C5: a non-empty role is never overridden.  Over any sequence of
\* createA11yButton and setModalA11yAttributes calls, a role that is
\* non-empty keeps its value; a role is written only when it was absent or
\* empty, and then it is the configured role or "dialog".
C5_RoleNeverOverridden ==
  [][ \A n \in DOMAIN heap :
        /\ Truthy(heap, n, "role") =>
              /\ HasAttribute(heap', n, "role")
              /\ heap'[n].attrs["role"] = heap[n].attrs["role"]
        /\ ~SameAttr(heap'[n].attrs, heap[n].attrs, "role") =>
              /\ ~Truthy(heap, n, "role")
              /\ HasAttribute(heap', n, "role")
              /\ \/ last'.op = "button" /\ heap'[n].attrs["role"] = last'.role
                 \/ last'.op = "modal" /\ heap'[n].attrs["role"] = <<"dialog">>
    ]_vars

\* C5's case: an element with role "link" has been promoted with another
\* configured role and then attributed as a modal, and still has role "link".
C5_Witness ==
  /\ ModalCalled
  /\ Promoted(last.el)
  /\ AttrTruthy(pre, "role")
  /\ pre["role"] = RoleLink
  /\ After["role"] = RoleLink

\* C6 as claimed: a modal with neither a non-empty aria-label nor a non-empty
\* aria-labelledby and with a non-empty headline gets the trimmed text of the
\* first non-empty headline as aria-label and is left without an
\* aria-labelledby attribute.
C6_HeadlineLabelNoReferenceAttribute ==
  (ModalCalled /\ ~AttrTruthy(pre, "aria-label")
     /\ ~AttrTruthy(pre, "aria-labelledby") /\ HasNonEmptyHeadline) =>
     /\ "aria-label" \in DOMAIN After
     /\ IsFirstNonEmptyHeadlineText(After["aria-label"])
     /\ "aria-labelledby" \notin DOMAIN After

\* C6, amended: such a modal gets the trimmed text of the first non-empty
\* headline as aria-label, and its aria-labelledby is left as it was: absent,
\* or present with the empty value.
C6_HeadlineLabelReferenceUntouched ==
  (ModalCalled /\ ~AttrTruthy(pre, "aria-label")
     /\ ~AttrTruthy(pre, "aria-labelledby") /\ HasNonEmptyHeadline) =>
     /\ "aria-label" \in DOMAIN After
     /\ IsFirstNonEmptyHeadlineText(After["aria-label"])
     /\ SameAttr(After, pre, "aria-labelledby")
     /\ ~AttrTruthy(After, "aria-labelledby")

\* C6's case: a modal without labels whose first headline is blank and whose
\* second has text has been attributed.
C6_Witness ==
  /\ ModalCalled
  /\ ~AttrTruthy(pre, "aria-label")
  /\ ~AttrTruthy(pre, "aria-labelledby")
  /\ Len(HeadlinesOfSubject) >= 2
  /\ TextContent(heap, HeadlinesOfSubject[1]) # <<>>
  /\ Trim(TextContent(heap, HeadlinesOfSubject[1])) = <<>>
  /\ Trim(TextContent(heap, HeadlinesOfSubject[2])) # <<>>
  /\ After["aria-label"] = Trim(TextContent(heap, HeadlinesOfSubject[2]))

\* C7: when the modal's aria-labelledby names an element t of the document,
\* setModalA11yAttributes ends with aria-label equal to t's trimmed text and
\* with aria-labelledby removed; when the id it names is the id of no element,
\* aria-label and aria-labelledby are left exactly as they were.
C7_ReferenceReplacedOrUntouched ==
  (ModalCalled /\ AttrTruthy(pre, "aria-labelledby")) =>
     IF Referenced # Null
     THEN /\ "aria-label" \in DOMAIN After
          /\ After["aria-label"] = ReferencedText
          /\ "aria-labelledby" \notin DOMAIN After
     ELSE /\ SameAttr(After, pre, "aria-label")
          /\ SameAttr(After, pre, "aria-labelledby")

\* C7's case: a modal whose aria-labelledby named an element with text has
\* been attributed.
C7_Witness ==
  /\ ModalCalled
  /\ AttrTruthy(pre, "aria-labelledby")
  /\ Referenced # Null
  /\ TextContent(heap, Referenced) # ReferencedText
  /\ ReferencedText # <<>>
  /\ After["aria-label"] = ReferencedText

\* C10: setModalA11yAttributes is idempotent on an unchanged document: a
\* second call right after the first leaves role, aria-modal, aria-label and
\* aria-labelledby as the first call left them.
C10_Idempotent ==
  (ModalCalled /\ consec = 2) =>
     \A name \in {"role", "aria-modal", "aria-label", "aria-labelledby"} :
        SameAttr(After, pre, name)

=============================================================================
